---- MODULE Spec2Model ----
(***************************************************************************)
(* Model of src/script.js: the nebula particle field                       *)
(* (initNebulaBackground), its throttled resize listener (throttle) and    *)
(* the animation-frame loop (animate).                                     *)
(*                                                                         *)
(* Numbers.  The script computes in Numbers (IEEE 754 binary64).  A value  *)
(* returned by Math.random() is the Number nearest to n/RandDen for an     *)
(* integer 0 <= n < RandDen.  With Scale = 10 * RandDen every expression   *)
(* of Node.reset is, in exact arithmetic, a whole number of grid steps of  *)
(* 1/Scale; the Number the script computes differs from it by rounding.    *)
(* A position or velocity is held as that whole number (x, y, speedX,      *)
(* speedY) and the difference of the Number from it (xOff, yOff,           *)
(* speedXOff, speedYOff) in units of 2^-Frac grid steps, and the model     *)
(* adds, subtracts, multiplies and compares the Numbers as the script      *)
(* does, rounding included.  size and opacity are held to the grid: the    *)
(* script compares them with nothing.  Viewport and canvas dimensions are  *)
(* whole pixels, and times are milliseconds.                               *)
(*                                                                         *)
(* Indices.  The script's arrays are 0-based, the model's sequences are    *)
(* 1-based: nodes[i] of the model is nodes[i-1] of the script.             *)
(***************************************************************************)
EXTENDS Integers, Sequences, FiniteSets

(* ---------------------------- bounds ----------------------------------- *)

\* Math.random() returns a multiple of 1/RandDen in [0, 1).
RandDen == 4

\* Animation frames explored after the one initNebulaBackground runs itself.
MaxFrames == 2

\* The clock advances in steps of TimeStep ms while it is below MaxNow ms.
TimeStep == 100

MaxNow == 200

(* ------------------------ program constants ---------------------------- *)

\* script.js:442  if (dist < 150)
Threshold == 150

\* script.js:393  throttle(resize, 200)
ThrottleLimit == 200

\* script.js:421  window.innerWidth < 800 ? 30 : 60
NarrowBelow == 800

NarrowCount == 30

WideCount == 60

(* --------------------------- environment ------------------------------- *)

\* Fixed-point units per pixel (and per unit of size and of opacity).
Scale == 10 * RandDen

\* The viewport sizes <<innerWidth, innerHeight>> the window takes.
Viewports == { <<150, 150>>, <<600, 600>>, <<800, 600>> }

Abs(v) == IF v < 0 THEN -v ELSE v

Min(a, b) == IF a < b THEN a ELSE b

VARIABLES
    phase,       \* "loading" before DOMContentLoaded, "running" after
    bgCanvas,    \* "none": no #bg-canvas; "attached"; "detached" from the document
    winW, winH,  \* window.innerWidth, window.innerHeight
    width, height, \* initNebulaBackground's width and height (0 before resize())
    nodes,       \* initNebulaBackground's nodes
    rng,         \* Math.random(): the draws it will return, and how many
                 \* of them it has returned
    rafPending,  \* animate is requested for the next animation frame
    frames,      \* number of runs of animate so far
    updates,     \* per node, what Node.update did in the last run of animate
                 \* and how many draws had been made before it
    tested,      \* the pair tests of the last run of animate, in order
    cleared,     \* <<width, height>> the last run of animate cleared and used
    now,         \* the clock, ms
    inThrottle,  \* throttle's inThrottle of the resize listener
    timerAt,     \* due time of the pending throttle timeout, -1 when none
    lastExec,    \* time of the listener's last execution of resize, -1 when none
    prevExec,    \* time of its execution before that, -1 when none
    initW,       \* window.innerWidth when nodeCount was computed, -1 before
    born,        \* the nodes as constructed and the dimensions stored then
    form,        \* the contact form, its button and the calls of sendMessage
    theme,       \* the theme preference, the data-theme attribute, the toggle
    globe,       \* one pair test of the globe's draw: its inputs and decision
    boot,        \* the boot screen, its log and progress bar, the page's timers
    scr,         \* one TextScramble instance and its element
    typ          \* one call of typeText and its element

\* The variables of the nebula field, except the clock.
fieldVars == << phase, bgCanvas, winW, winH, width, height, nodes, rng,
                rafPending, frames, updates, tested, cleared, inThrottle,
                timerAt, lastExec, prevExec, initW, born >>

\* The variables of the other parts of the page.
pageVars == << form, theme, globe, boot, scr, typ >>

vars == << fieldVars, now, pageVars >>

\* The value of a part of the page that a specification leaves out.
Idle == [ on |-> FALSE ]

(* ------------------------- the random source --------------------------- *)

\* Math.random() is an input of the page: the engine seeds it anew on every
\* load. Its state s holds the tape of the draws it will return, each the
\* numerator n of a value n/RandDen (the engine's value rounded down to the
\* grid), and the number pos of draws returned so far.

\* The state after a draw.
NextRng(s) == [s EXCEPT !.pos = @ + 1]

\* Math.random(): the numerator drawn in state s.
Random(s) == s.tape[s.pos + 1]

\* The draws of a tape: enough to construct the largest field and to reset
\* every node in every frame explored.
TapeLen == 6 * WideCount * (MaxFrames + 2)

\* Every tape: any sequence of draws.
AnyTape == [1..TapeLen -> 0..(RandDen - 1)]

\* The tapes explored are made by a 16-bit linear congruential generator.
TapeStep(g) == (25173 * g + 13849) % 65536

\* The generator st.g draws onto st.tape until the tape holds upto draws.
RECURSIVE TapeDraws(_, _)
TapeDraws(st, upto) ==
    IF Len(st.tape) >= upto
    THEN st
    ELSE TapeDraws([ g    |-> TapeStep(st.g),
                     tape |-> Append(st.tape,
                                     (TapeStep(st.g) * RandDen) \div 65536) ],
                   upto)

\* The same, the six draws of one node at a time.
RECURSIVE TapeNodes(_, _)
TapeNodes(st, upto) ==
    IF Len(st.tape) >= upto
    THEN st
    ELSE TapeNodes(TapeDraws(st, Len(st.tape) + 6), upto)

\* The same, the draws of one field of WideCount nodes at a time.
RECURSIVE TapeFields(_, _)
TapeFields(st, upto) ==
    IF Len(st.tape) >= upto
    THEN st
    ELSE TapeFields(TapeNodes(st, Len(st.tape) + 6 * WideCount), upto)

\* The tape made from a seed.
TapeOf(seed) == TapeFields([ g |-> seed, tape |-> << >> ], TapeLen).tape

\* The seed of the tape explored: its draws bring pairs of nodes within the
\* rounding of the threshold in the frames explored.
Seeds == { 9 }

\* The tapes explored.
Tapes == { TapeOf(seed) : seed \in Seeds }

(* ------------------------------ Number --------------------------------- *)

\* The code's positions, velocities and distances are Numbers (IEEE 754
\* binary64), and +, - and * round their exact result to the nearest Number,
\* ties to the even significand.  The exact results need more digits than
\* the model checker's integers have, so a natural number is held as the
\* sequence of its digits to the base Base, lowest first, without leading
\* zeros.
Base == 2^15

\* Bits of the significand of a Number.
MantBits == 53

\* A Number held in a node is written g + off / 2^Frac in grid steps of
\* 1/Scale: g the value to the grid, off what the Number differs from it.
Frac == 4 * 15

\* The digits of a natural number n.
RECURSIVE BigOf(_)
BigOf(n) == IF n = 0 THEN << >> ELSE << n % Base >> \o BigOf(n \div Base)

\* The number of a digit sequence short enough for an integer.
RECURSIVE BigInt(_)
BigInt(a) == IF a = << >> THEN 0 ELSE Head(a) + Base * BigInt(Tail(a))

\* Digit i of a, 0 beyond its length.
BigDigit(a, i) == IF i <= Len(a) THEN a[i] ELSE 0

\* a without leading zeros.
RECURSIVE BigTrim(_)
BigTrim(a) ==
    IF a = << >> THEN a
    ELSE IF a[Len(a)] = 0 THEN BigTrim(SubSeq(a, 1, Len(a) - 1))
    ELSE a

\* a + b + c from digit i on, c the carry.
RECURSIVE BigAddFrom(_, _, _, _)
BigAddFrom(a, b, i, c) ==
    IF i > Len(a) /\ i > Len(b)
    THEN IF c = 0 THEN << >> ELSE << c >>
    ELSE << (BigDigit(a, i) + BigDigit(b, i) + c) % Base >>
         \o BigAddFrom(a, b, i + 1, (BigDigit(a, i) + BigDigit(b, i) + c) \div Base)

BigAdd(a, b) == BigAddFrom(a, b, 1, 0)

\* a - b - c from digit i on for a >= b, c the borrow.
RECURSIVE BigSubFrom(_, _, _, _)
BigSubFrom(a, b, i, c) ==
    IF i > Len(a)
    THEN << >>
    ELSE << (BigDigit(a, i) - BigDigit(b, i) - c) % Base >>
         \o BigSubFrom(a, b, i + 1,
                       IF BigDigit(a, i) - BigDigit(b, i) - c < 0 THEN 1 ELSE 0)

BigSub(a, b) == BigTrim(BigSubFrom(a, b, 1, 0))

\* -1, 0 or 1 as a is less than, equal to or greater than b, comparing from
\* digit i down.
RECURSIVE BigCmpFrom(_, _, _)
BigCmpFrom(a, b, i) ==
    IF i = 0 THEN 0
    ELSE IF a[i] < b[i] THEN -1
    ELSE IF a[i] > b[i] THEN 1
    ELSE BigCmpFrom(a, b, i - 1)

BigCmp(a, b) ==
    IF Len(a) < Len(b) THEN -1
    ELSE IF Len(a) > Len(b) THEN 1
    ELSE BigCmpFrom(a, b, Len(a))

\* a * k + c from digit i on, for 0 <= k <= Base.
RECURSIVE BigTimesFrom(_, _, _, _)
BigTimesFrom(a, k, i, c) ==
    IF i > Len(a)
    THEN BigOf(c)
    ELSE << (a[i] * k + c) % Base >>
         \o BigTimesFrom(a, k, i + 1, (a[i] * k + c) \div Base)

BigTimes(a, k) == BigTrim(BigTimesFrom(a, k, 1, 0))

\* a * Base^n.
RECURSIVE BigUp(_, _)
BigUp(a, n) == IF n = 0 \/ a = << >> THEN a ELSE << 0 >> \o BigUp(a, n - 1)

\* a * b.
RECURSIVE BigMul(_, _)
BigMul(a, b) ==
    IF a = << >> \/ b = << >>
    THEN << >>
    ELSE BigAdd(BigTimes(a, Head(b)), BigUp(BigMul(a, Tail(b)), 1))

\* Quotient and remainder of a by k, 0 < k <= Base, from digit i down: r is
\* the remainder of the digits above i and acc their quotient.
RECURSIVE BigOverFrom(_, _, _, _, _)
BigOverFrom(a, k, i, r, acc) ==
    IF i = 0
    THEN [ q |-> BigTrim(acc), r |-> r ]
    ELSE BigOverFrom(a, k, i - 1, (r * Base + a[i]) % k,
                     << (r * Base + a[i]) \div k >> \o acc)

BigOver(a, k) == BigOverFrom(a, k, Len(a), 0, << >>)

\* Bits of a natural number n.
RECURSIVE IntBits(_)
IntBits(n) == IF n = 0 THEN 0 ELSE 1 + IntBits(n \div 2)

\* Bits of a.
BigBits(a) ==
    IF a = << >> THEN 0
    ELSE (Len(a) - 1) * IntBits(Base - 1) + IntBits(a[Len(a)])

\* a * 2^n.
BigShl(a, n) ==
    BigUp(BigTimes(a, 2^(n % IntBits(Base - 1))), n \div IntBits(Base - 1))

\* The whole part of a / 2^n.
BigShr(a, n) ==
    LET whole == n \div IntBits(Base - 1)
    IN  IF whole >= Len(a)
        THEN << >>
        ELSE BigOver(SubSeq(a, whole + 1, Len(a)), 2^(n % IntBits(Base - 1))).q

\* A Number is [neg, m, e]: m * 2^e, negated when neg; m has at most
\* MantBits bits (a power of two may be held with one bit more).

\* The Number for the quotient q of m by 2^k: one more when what the division
\* left over is above half of 2^k (half > 0), or is half and q is odd.
RoundUp(neg, q, e, half) ==
    [ neg |-> neg,
      m   |-> IF half > 0 \/ (half = 0 /\ q[1] % 2 = 1)
              THEN BigAdd(q, << 1 >>)
              ELSE q,
      e   |-> e ]

RoundCut(neg, m, e, k, q) ==
    RoundUp(neg, q, e + k,
            BigCmp(BigSub(m, BigShl(q, k)), BigShl(<< 1 >>, k - 1)))

\* The Number nearest to m * 2^e, ties to the even significand.
Round(neg, m, e) ==
    IF BigBits(m) <= MantBits
    THEN [ neg |-> neg, m |-> m, e |-> e ]
    ELSE RoundCut(neg, m, e, BigBits(m) - MantBits,
                  BigShr(m, BigBits(m) - MantBits))

\* The Number of an integer n.
NumOfInt(n) ==
    IF n < 0 THEN Round(TRUE, BigOf(-n), 0) ELSE Round(FALSE, BigOf(n), 0)

\* The Number nearest to the quotient d of p * 2^(2 * MantBits) by q: a last
\* bit records a remainder, so that rounding sees on which side of a tie the
\* exact quotient lies.
NumOfQuotient(d) ==
    Round(FALSE,
          BigAdd(BigTimes(d.q, 2), IF d.r = 0 THEN << >> ELSE << 1 >>),
          -(2 * MantBits) - 1)

\* The Number nearest to p / q, for naturals p and 0 < q <= Base: a decimal
\* literal, or a draw of Math.random().
NumOfRatio(p, q) == NumOfQuotient(BigOver(BigShl(BigOf(p), 2 * MantBits), q))

\* The sum of am * 2^e and bm * 2^e, each negated as told, rounded.
NumAddAt(aneg, am, bneg, bm, e) ==
    IF aneg = bneg
    THEN Round(aneg, BigAdd(am, bm), e)
    ELSE IF BigCmp(am, bm) >= 0
    THEN Round(aneg, BigSub(am, bm), e)
    ELSE Round(bneg, BigSub(bm, am), e)

\* a + b of Numbers, rounded.
NumAdd(a, b) ==
    NumAddAt(a.neg, BigShl(a.m, a.e - Min(a.e, b.e)),
             b.neg, BigShl(b.m, b.e - Min(a.e, b.e)), Min(a.e, b.e))

\* a - b of Numbers, rounded.
NumSub(a, b) == NumAdd(a, [b EXCEPT !.neg = ~b.neg])

\* a * b of Numbers, rounded.
NumMul(a, b) == Round(a.neg # b.neg, BigMul(a.m, b.m), a.e + b.e)

\* a < b for Numbers a, b >= 0.
NumLess(a, b) ==
    BigCmp(BigShl(a.m, a.e - Min(a.e, b.e)),
           BigShl(b.m, b.e - Min(a.e, b.e))) < 0

\* The point half way from the Number m * 2^e, m of MantBits bits, to the
\* Number before it, squared.
MidBelowSquared(m, e) ==
    IF BigCmp(m, BigShl(<< 1 >>, MantBits - 1)) = 0
    THEN [ neg |-> FALSE,
           m   |-> BigMul(BigSub(BigTimes(m, 4), << 1 >>),
                          BigSub(BigTimes(m, 4), << 1 >>)),
           e   |-> 2 * (e - 2) ]
    ELSE [ neg |-> FALSE,
           m   |-> BigMul(BigSub(BigTimes(m, 2), << 1 >>),
                          BigSub(BigTimes(m, 2), << 1 >>)),
           e   |-> 2 * (e - 1) ]

\* Math.sqrt(s) < t for Numbers s >= 0 and t > 0.  Math.sqrt returns the
\* Number nearest to the exact root, so the result is below t exactly when the
\* root is below the point half way from t to the Number before it; the square
\* of that point has more bits than a Number has, so s never equals it.
SqrtBelow(s, t) ==
    NumLess(s, MidBelowSquared(BigShl(t.m, MantBits - BigBits(t.m)),
                               t.e - (MantBits - BigBits(t.m))))

\* The Number g + off / 2^Frac in grid steps of 1/scale.
ToNum(g, off, scale) ==
    LET whole == BigShl(BigOf(IF g < 0 THEN -g ELSE g), Frac)
        part  == BigOf(IF off < 0 THEN -off ELSE off)
        n     == IF g = 0 THEN part
                 ELSE IF (g < 0) = (off < 0) THEN BigAdd(whole, part)
                 ELSE BigSub(whole, part)
    IN  Round(g < 0 \/ (g = 0 /\ off < 0),
              BigOver(BigShl(n, IntBits(Base - 1)), scale).q,
              -Frac - IntBits(Base - 1))

\* a - b for naturals with a difference short enough for an integer.
BigLess(a, b) ==
    IF BigCmp(a, b) >= 0 THEN BigInt(BigSub(a, b)) ELSE -BigInt(BigSub(b, a))

\* What the Number n differs from the grid value g of its sign, in units of
\* 2^-Frac grid steps of 1/scale.
Off(n, g, scale) ==
    LET z == BigTimes(IF n.e + Frac >= 0 THEN BigShl(n.m, n.e + Frac)
                      ELSE BigShr(n.m, -(n.e + Frac)), scale)
        w == BigShl(BigOf(IF g < 0 THEN -g ELSE g), Frac)
    IN  IF n.neg THEN BigLess(w, z) ELSE BigLess(z, w)

\* 2^n modulo m.
RECURSIVE PowerOfTwoMod(_, _)
PowerOfTwoMod(n, m) ==
    IF n <= 15 THEN 2^n % m ELSE ((2^15 % m) * PowerOfTwoMod(n - 15, m)) % m

\* g + off / 2^Frac grid steps of 1/scale is at least 2^p, for g >= 0.
AtLeastPower(g, off, p, scale) ==
    IF p >= 0
    THEN g > scale * 2^p \/ (g = scale * 2^p /\ off >= 0)
    ELSE g * 2^(-p) > scale \/ (g * 2^(-p) = scale /\ off >= 0)

\* The exponent of g + off / 2^Frac grid steps of 1/scale, for g > 0: the
\* largest p, at most top, with 2^p at or below the value.
RECURSIVE Exponent(_, _, _, _)
Exponent(g, off, top, scale) ==
    IF AtLeastPower(g, off, top, scale)
    THEN top
    ELSE Exponent(g, off, top - 1, scale)

\* The steps of the Numbers with exponent p are u = scale * 2^k units of
\* 2^-Frac grid steps, k = Frac - (MantBits - 1 - p).  The exact value
\* g * 2^Frac + off is y above a multiple of u, that multiple even exactly
\* when even: the nearest Number is c steps further, c being y / u rounded,
\* a tie towards the even multiple.
NearestStep(y, u, even) ==
    IF 2 * (y % u) < u THEN y \div u
    ELSE IF 2 * (y % u) > u THEN y \div u + 1
    ELSE IF even = ((y \div u) % 2 = 0) THEN y \div u
    ELSE y \div u + 1

\* tail is what g * 2^Frac is above a multiple of u = scale * 2^k, in units
\* of 2^k; the Number nearest to g * 2^Frac + off, less g * 2^Frac.
RoundedOffAbove(tail, off, k, scale, even) ==
    scale * 2^k * NearestStep(2^k * tail + off, scale * 2^k, even) - 2^k * tail

\* r is g * 2^(Frac - k) modulo 2 * scale.
RoundedOffModulo(r, off, k, scale) ==
    RoundedOffAbove(r % scale, off, k, scale, r < scale)

RoundedOffAt(g, off, k, scale) ==
    RoundedOffModulo((g * PowerOfTwoMod(Frac - k, 2 * scale)) % (2 * scale),
                     off, k, scale)

\* What the Number nearest to g + off / 2^Frac grid steps of 1/scale differs
\* from g, in units of 2^-Frac grid steps: the rounding of an exact sum or
\* difference of two Numbers, or of an exact product with a whole number.
\* (At g = 0 the exact value is short enough to be a Number itself.)
RoundedOff(g, off, scale) ==
    IF g = 0 THEN off
    ELSE IF g < 0 THEN -RoundedOffAt(-g, -off,
                           Frac - (MantBits - 1) + Exponent(-g, -off, IntBits(-g), scale),
                           scale)
    ELSE RoundedOffAt(g, off,
                      Frac - (MantBits - 1) + Exponent(g, off, IntBits(g), scale),
                      scale)

(* ------------------------------ Node ----------------------------------- *)

\* Math.random() for the draw n, the Number nearest to n / RandDen: what it
\* differs from the grid value.
DrawOff(n) == RoundedOff((n * Scale) \div RandDen, 0, Scale)

\* Math.random() * w for the draw n and a whole w: what the Number differs
\* from the grid value.
PlaceOff(n, w) ==
    RoundedOff(((n * Scale) \div RandDen) * w, DrawOff(n) * w, Scale)

\* (Math.random() - 0.5) * 0.8 for the draw n: the Number.
Speed(n) ==
    NumMul(NumSub(NumOfRatio(n, RandDen), NumOfRatio(1, 2)), NumOfRatio(8, 10))

\* The same for every draw: what the Number differs from the grid value.
SpeedOffs ==
    [ n \in 0..(RandDen - 1) |->
        Off(Speed(n), ((2 * n - RandDen) * 8 * Scale) \div (20 * RandDen), Scale) ]

\* Variant of reset that spreads the position over twice the field.
resetWide(s, w, h) ==
    LET s1 == NextRng(s)
        s2 == NextRng(s1)
        s3 == NextRng(s2)
        s4 == NextRng(s3)
        s5 == NextRng(s4)
        s6 == NextRng(s5)
    IN  [ node |->
            [ x       |-> (Random(s) * 2 * w * Scale) \div RandDen,
              xOff    |-> PlaceOff(Random(s), 2 * w),
              y       |-> (Random(s1) * 2 * h * Scale) \div RandDen,
              yOff    |-> PlaceOff(Random(s1), 2 * h),
              size    |-> (Random(s2) * 2 * Scale) \div RandDen + Scale,
              speedX  |-> ((2 * Random(s3) - RandDen) * 8 * Scale) \div (20 * RandDen),
              speedXOff |-> SpeedOffs[Random(s3)],
              speedY  |-> ((2 * Random(s4) - RandDen) * 8 * Scale) \div (20 * RandDen),
              speedYOff |-> SpeedOffs[Random(s4)],
              opacity |-> (Random(s5) * 5 * Scale) \div (10 * RandDen) + (2 * Scale) \div 10 ],
          rng |-> s6 ]

\* Node.reset(): six draws, in the order x, y, size, speedX, speedY, opacity.
\* Returns the new node and the state of the random source after the draws.
reset(s, w, h) ==
    LET s1 == NextRng(s)
        s2 == NextRng(s1)
        s3 == NextRng(s2)
        s4 == NextRng(s3)
        s5 == NextRng(s4)
        s6 == NextRng(s5)
    IN  [ node |->
            [ x       |-> (Random(s) * w * Scale) \div RandDen,
              xOff    |-> PlaceOff(Random(s), w),
              y       |-> (Random(s1) * h * Scale) \div RandDen,
              yOff    |-> PlaceOff(Random(s1), h),
              size    |-> (Random(s2) * 2 * Scale) \div RandDen + Scale,
              speedX  |-> ((2 * Random(s3) - RandDen) * 8 * Scale) \div (20 * RandDen),
              speedXOff |-> SpeedOffs[Random(s3)],
              speedY  |-> ((2 * Random(s4) - RandDen) * 8 * Scale) \div (20 * RandDen),
              speedYOff |-> SpeedOffs[Random(s4)],
              opacity |-> (Random(s5) * 5 * Scale) \div (10 * RandDen) + (2 * Scale) \div 10 ],
          rng |-> s6 ]

\* The Number g + off / 2^Frac grid steps is below 0.
Negative(g, off) == g < 0 \/ (g = 0 /\ off < 0)

\* The Number g + off / 2^Frac grid steps is below px pixels.
Short(g, off, px) == g < px * Scale \/ (g = px * Scale /\ off < 0)

\* The Number g + off / 2^Frac grid steps is above px pixels.
Beyond(g, off, px) == g > px * Scale \/ (g = px * Scale /\ off > 0)

\* Variant of LeftField that forgets the vertical axis.
LeftFieldXOnly(n, w, h) ==
    Negative(n.x, n.xOff) \/ Beyond(n.x, n.xOff, w)

\* The test of Node.update(): this.x < 0 || this.x > width || this.y < 0 ||
\* this.y > height, for the node n and dimensions in pixels.
LeftField(n, w, h) ==
    \/ Negative(n.x, n.xOff)
    \/ Beyond(n.x, n.xOff, w)
    \/ Negative(n.y, n.yOff)
    \/ Beyond(n.y, n.yOff, h)

\* this.x += this.speedX; this.y += this.speedY: the node n advanced by its
\* velocity, each sum rounded to a Number.
Advanced(n) ==
    [n EXCEPT !.x    = n.x + n.speedX,
              !.xOff = RoundedOff(n.x + n.speedX, n.xOff + n.speedXOff, Scale),
              !.y    = n.y + n.speedY,
              !.yOff = RoundedOff(n.y + n.speedY, n.yOff + n.speedYOff, Scale)]

\* The result of a reset r made by update.
AfterReset(r) == [ node |-> r.node, rng |-> r.rng, didReset |-> TRUE ]

\* The position of the result of a reset r put into the node n.
AfterPlacing(n, r) ==
    [ node |-> [n EXCEPT !.x = r.node.x, !.xOff = r.node.xOff,
                         !.y = r.node.y, !.yOff = r.node.yOff],
      rng |-> r.rng, didReset |-> TRUE ]

\* Variant of Landed that, on leaving the field, redraws the position only and
\* keeps size, velocity and opacity.
LandedKeepsVelocity(n, moved, s, w, h) ==
    IF LeftField(moved, w, h)
    THEN AfterPlacing(n, reset(s, w, h))
    ELSE [ node |-> moved, rng |-> s, didReset |-> FALSE ]

\* The if of Node.update() for the node n advanced to moved: reset when moved
\* left the field.
Landed(n, moved, s, w, h) ==
    IF LeftField(moved, w, h)
    THEN AfterReset(reset(s, w, h))
    ELSE [ node |-> moved, rng |-> s, didReset |-> FALSE ]

\* Variant of update that, on leaving the field, redraws the position only and
\* keeps size, velocity and opacity.
updateKeepsVelocity(n, s, w, h) == LandedKeepsVelocity(n, Advanced(n), s, w, h)

\* Node.update(): advance by the velocity, reset when the node left the field.
update(n, s, w, h) == Landed(n, Advanced(n), s, w, h)

(* ---------------------------- the field -------------------------------- *)

\* Variant of NodeCount with <= for <.
NodeCountInclusive(iw) == IF iw <= NarrowBelow THEN NarrowCount ELSE WideCount

\* nodeCount = window.innerWidth < 800 ? 30 : 60
NodeCount(iw) == IF iw < NarrowBelow THEN NarrowCount ELSE WideCount

\* Array.from({ length: nodeCount }, () => new Node()): the nodes are
\* constructed in index order, each by one reset(), until acc holds count of
\* them.
RECURSIVE NewNodes(_, _, _, _, _)
\* r is what the reset of the next node returned.
NewNodesAfter(count, r, w, h, acc) ==
    NewNodes(count, r.rng, w, h, Append(acc, r.node))

NewNodes(count, s, w, h, acc) ==
    IF Len(acc) >= count
    THEN [ nodes |-> acc, rng |-> s ]
    ELSE NewNodesAfter(count, reset(s, w, h), w, h, acc)

\* Variant of resize that pulls the nodes into the new dimensions.
resizeClamps(ns, iw, ih) ==
    [ width |-> iw, height |-> ih,
      nodes |-> [ i \in DOMAIN ns |->
                    [ns[i] EXCEPT
                        !.x    = Min(ns[i].x, iw * Scale),
                        !.xOff = IF Beyond(ns[i].x, ns[i].xOff, iw) THEN 0 ELSE @,
                        !.y    = Min(ns[i].y, ih * Scale),
                        !.yOff = IF Beyond(ns[i].y, ns[i].yOff, ih) THEN 0 ELSE @] ] ]

\* resize(): what it leaves in the closure of initNebulaBackground.  It
\* stores window.innerWidth and window.innerHeight as width and height (and
\* as the canvas size) and does not touch the nodes ns.
resize(ns, iw, ih) == [ width |-> iw, height |-> ih, nodes |-> ns ]

\* Variant of ThrottleDue that drops the limit.
ThrottleDueAtOnce(t, limit) == t

\* throttle: setTimeout(() => inThrottle = false, limit) called at time t
\* makes the timeout due at t + limit.
ThrottleDue(t, limit) == t + limit

\* The Number dx*dx + dy*dy for Numbers dx and dy.
SumOfSquares(dx, dy) == NumAdd(NumMul(dx, dx), NumMul(dy, dy))

\* dx*dx + dy*dy of the nodes p1 and p2, with dx = p1.x - p2.x and
\* dy = p1.y - p2.y, every operation rounded to a Number.
SquaredDist(p1, p2) ==
    SumOfSquares(ToNum(p1.x - p2.x,
                       RoundedOff(p1.x - p2.x, p1.xOff - p2.xOff, Scale), Scale),
                 ToNum(p1.y - p2.y,
                       RoundedOff(p1.y - p2.y, p1.yOff - p2.yOff, Scale), Scale))

\* The Number after t, for a Number t > 0 that is not the last before a power
\* of two.
NumAfter(t) ==
    [ neg |-> FALSE,
      m   |-> BigAdd(BigShl(t.m, MantBits - BigBits(t.m)), << 1 >>),
      e   |-> t.e - (MantBits - BigBits(t.m)) ]

\* Variant of DistBelow with <= for <.
DistAtMost(p1, p2, t) ==
    IF Abs(p1.x - p2.x) > t * Scale \/ Abs(p1.y - p2.y) > t * Scale
    THEN FALSE
    ELSE IF (p1.x - p2.x) * (p1.x - p2.x) + (p1.y - p2.y) * (p1.y - p2.y)
                # (t * Scale) * (t * Scale)
    THEN (p1.x - p2.x) * (p1.x - p2.x) + (p1.y - p2.y) * (p1.y - p2.y)
            < (t * Scale) * (t * Scale)
    ELSE SqrtBelow(SquaredDist(p1, p2), NumAfter(NumOfInt(t)))

\* dist < t for dist = Math.sqrt(dx*dx + dy*dy) of the nodes p1 and p2 and a
\* whole t > 0.  The Numbers of a position differ from its grid values by less
\* than 2^-30 of a grid step and each operation rounds by less than 2^-52 of
\* its result, while two squared grid distances that differ do so by at least
\* one squared grid step, over 2^-26 of the squared threshold: so a pair whose
\* grid distance is not exactly t is decided as its grid distance is.  (A
\* coordinate difference above t is tested first, which keeps the grid
\* squares inside the model checker's 32-bit integers.)  A pair at grid
\* distance exactly t is decided by the Numbers the script computes.
DistBelow(p1, p2, t) ==
    IF Abs(p1.x - p2.x) > t * Scale \/ Abs(p1.y - p2.y) > t * Scale
    THEN FALSE
    ELSE IF (p1.x - p2.x) * (p1.x - p2.x) + (p1.y - p2.y) * (p1.y - p2.y)
                # (t * Scale) * (t * Scale)
    THEN (p1.x - p2.x) * (p1.x - p2.x) + (p1.y - p2.y) * (p1.y - p2.y)
            < (t * Scale) * (t * Scale)
    ELSE SqrtBelow(SquaredDist(p1, p2), NumOfInt(t))

\* Variant of InnerStart that starts the inner loop at i itself.
InnerStartAtSelf(i) == i

\* The first j of the inner loop: for (let j = i+1; ...).
InnerStart(i) == i + 1

\* The body of the inner loop for the pair (i, j) of the array ns.
PairTest(i, j, ns) ==
    LET p1 == ns[i]
        p2 == ns[j]
    IN  [ i |-> i, j |-> j,
          x1 |-> p1.x, y1 |-> p1.y, x2 |-> p2.x, y2 |-> p2.y,
          x1Off |-> p1.xOff, y1Off |-> p1.yOff,
          x2Off |-> p2.xOff, y2Off |-> p2.yOff,
          line |-> DistBelow(p1, p2, Threshold) ]

\* The inner loop of animate for node i: the pair tests in order of j.
InnerLoop(i, ns) ==
    LET first == InnerStart(i)
        count == IF Len(ns) >= first THEN Len(ns) - first + 1 ELSE 0
    IN  [ k \in 1..count |-> PairTest(i, first + k - 1, ns) ]

\* The rest of an iteration of the outer loop after p1.update() returned u:
\* p1.draw(), then the inner loop over the array ns2 that holds the updated
\* node.
AnimateStepWith(i, st, u, ns2) ==
    [ nodes |-> ns2, rng |-> u.rng,
      updates |-> Append(st.updates,
                         [ before |-> st.nodes[i], after |-> u.node,
                           didReset |-> u.didReset, drawn |-> st.rng.pos ]),
      tested |-> st.tested \o InnerLoop(i, ns2),
      cleared |-> st.cleared ]

\* The same, the updated node put into the array.
AnimateStepUpdated(i, st, u) ==
    AnimateStepWith(i, st, u, [st.nodes EXCEPT ![i] = u.node])

\* One iteration of the outer loop of animate, for node i: p1.update(),
\* p1.draw(), then the inner loop over the array as it is at that moment.
\* st holds the array, the random source and the record of the frame so far.
AnimateStep(i, st, w, h) ==
    AnimateStepUpdated(i, st, update(st.nodes[i], st.rng, w, h))

\* The outer loop of animate from node i on.
RECURSIVE AnimateFrom(_, _, _, _)
AnimateFrom(i, st, w, h) ==
    IF i > Len(st.nodes)
    THEN st
    ELSE AnimateFrom(i + 1, AnimateStep(i, st, w, h), w, h)

\* One run of animate over the whole field: ctx.clearRect(0, 0, width,
\* height), then the loops.
animate(ns, s, w, h) ==
    AnimateFrom(1, [ nodes |-> ns, rng |-> s, updates |-> << >>,
                     tested |-> << >>, cleared |-> << w, h >> ], w, h)

(* ------------------------------ Init ----------------------------------- *)

InitWith(tapes) ==
    /\ phase = "loading"
    /\ bgCanvas \in {"none", "attached"}
    /\ \E v \in Viewports : winW = v[1] /\ winH = v[2]
    /\ width = 0
    /\ height = 0
    /\ nodes = << >>
    /\ \E tp \in tapes : rng = [ tape |-> tp, pos |-> 0 ]
    /\ rafPending = FALSE
    /\ frames = 0
    /\ updates = << >>
    /\ tested = << >>
    /\ cleared = << 0, 0 >>
    /\ now = 0
    /\ inThrottle = FALSE
    /\ timerAt = -1
    /\ lastExec = -1
    /\ prevExec = -1
    /\ initW = -1
    /\ born = [ nodes |-> << >>, width |-> 0, height |-> 0,
                innerWidth |-> 0, innerHeight |-> 0 ]
    /\ form = Idle
    /\ theme = Idle
    /\ globe = Idle
    /\ boot = Idle
    /\ scr = Idle
    /\ typ = Idle

\* The page as loaded, Math.random() free to return any sequence of draws.
Init == InitWith(AnyTape)

\* The page as loaded, Math.random() returning one of the tapes explored.
InitTapes == InitWith(Tapes)

(* ----------------------------- actions --------------------------------- *)

\* DOMContentLoaded: initNebulaBackground().  Without the canvas it returns at
\* once.  Otherwise it registers the throttled listener, calls resize(),
\* constructs the nodes and calls animate(), which runs the first frame and
\* requests the next.
InitNebula ==
    /\ phase = "loading"
    /\ phase' = "running"
    /\ IF bgCanvas = "none"
       THEN UNCHANGED << width, height, nodes, rng, rafPending, frames,
                         updates, tested, cleared, initW, born >>
       ELSE \E d \in { resize(nodes, winW, winH) } :
            \E built \in { NewNodes(NodeCount(winW), rng, d.width, d.height, << >>) } :
            \E f \in { animate(built.nodes, built.rng, d.width, d.height) } :
                /\ width' = d.width
                /\ height' = d.height
                /\ initW' = winW
                /\ born' = [ nodes |-> built.nodes, width |-> d.width,
                             height |-> d.height, innerWidth |-> winW,
                             innerHeight |-> winH ]
                /\ nodes' = f.nodes
                /\ rng' = f.rng
                /\ updates' = f.updates
                /\ tested' = f.tested
                /\ cleared' = f.cleared
                /\ frames' = 1
                /\ rafPending' = TRUE
    /\ UNCHANGED << bgCanvas, winW, winH, now, inThrottle, timerAt, lastExec,
                    prevExec, pageVars >>

\* An animation frame: the requested animate runs and requests the next.
\* animate does not look at the canvas's place in the document.
Animate ==
    /\ rafPending
    /\ frames <= MaxFrames
    /\ \E f \in { animate(nodes, rng, width, height) } :
           /\ nodes' = f.nodes
           /\ rng' = f.rng
           /\ updates' = f.updates
           /\ tested' = f.tested
           /\ cleared' = f.cleared
    /\ frames' = frames + 1
    /\ rafPending' = TRUE
    /\ UNCHANGED << phase, bgCanvas, winW, winH, width, height, now,
                    inThrottle, timerAt, lastExec, prevExec, initW, born,
                    pageVars >>

\* The window is resized to v and the resize event is dispatched.  The
\* listener is the function throttle(resize, 200) returned: when not in the
\* throttle it runs resize(), sets inThrottle and starts the 200 ms timeout.
ResizeEvent(v) ==
    /\ phase = "running"
    /\ v # << winW, winH >>
    /\ winW' = v[1]
    /\ winH' = v[2]
    /\ IF bgCanvas # "none" /\ ~inThrottle
       THEN /\ \E d \in { resize(nodes, v[1], v[2]) } :
                /\ width' = d.width
                /\ height' = d.height
                /\ nodes' = d.nodes
            /\ inThrottle' = TRUE
            /\ timerAt' = ThrottleDue(now, ThrottleLimit)
            /\ prevExec' = lastExec
            /\ lastExec' = now
       ELSE UNCHANGED << width, height, nodes, inThrottle, timerAt, lastExec,
                         prevExec >>
    /\ UNCHANGED << phase, bgCanvas, rng, rafPending, frames, updates, tested,
                    cleared, now, initW, born, pageVars >>

\* The throttle's timeout runs, no earlier than its due time.
ThrottleTimeout ==
    /\ timerAt >= 0
    /\ now >= timerAt
    /\ inThrottle' = FALSE
    /\ timerAt' = -1
    /\ UNCHANGED << phase, bgCanvas, winW, winH, width, height, nodes, rng,
                    rafPending, frames, updates, tested, cleared, now,
                    lastExec, prevExec, initW, born, pageVars >>

\* Time passes.
AdvanceClock ==
    /\ now < MaxNow
    /\ now' = now + TimeStep
    /\ UNCHANGED << phase, bgCanvas, winW, winH, width, height, nodes, rng,
                    rafPending, frames, updates, tested, cleared, inThrottle,
                    timerAt, lastExec, prevExec, initW, born, pageVars >>

\* The page removes #bg-canvas from the document.
DetachCanvas ==
    /\ phase = "running"
    /\ bgCanvas = "attached"
    /\ bgCanvas' = "detached"
    /\ UNCHANGED << phase, winW, winH, width, height, nodes, rng, rafPending,
                    frames, updates, tested, cleared, now, inThrottle,
                    timerAt, lastExec, prevExec, initW, born,
                    pageVars >>

Next ==
    \/ InitNebula
    \/ Animate
    \/ \E v \in Viewports : ResizeEvent(v)
    \/ ThrottleTimeout
    \/ AdvanceClock
    \/ DetachCanvas

Spec == Init /\ [][Next]_vars

\* The behaviours of Spec on the tapes explored.
SpecTapes == InitTapes /\ [][Next]_vars

(* ------------------------------ claims --------------------------------- *)

\* The pixel dimensions the last run of animate used, in fixed point.
FrameW == cleared[1] * Scale

FrameH == cleared[2] * Scale

\* The position of the node n is in [0, w) x [0, h), in pixels.
InsideHalfOpen(n, w, h) ==
    /\ ~Negative(n.x, n.xOff) /\ Short(n.x, n.xOff, w)
    /\ ~Negative(n.y, n.yOff) /\ Short(n.y, n.yOff, h)

\* The position of the node n is in [0, w] x [0, h], in pixels.
InsideClosed(n, w, h) ==
    /\ ~Negative(n.x, n.xOff) /\ ~Beyond(n.x, n.xOff, w)
    /\ ~Negative(n.y, n.yOff) /\ ~Beyond(n.y, n.yOff, h)

\* C1 as claimed: after every run of animate every node has 0 <= x < width
\* and 0 <= y < height for the dimensions stored during that run (nodes only
\* change in animate, so in every state they are as the last run left them).
C1_AfterTickInsideHalfOpen ==
    frames > 0 =>
        \A i \in DOMAIN nodes : InsideHalfOpen(nodes[i], cleared[1], cleared[2])

\* C1 as amended: after every run of animate every node has 0 <= x <= width
\* and 0 <= y <= height for the dimensions stored during that run.
C1_AfterTickInsideClosed ==
    frames > 0 =>
        \A i \in DOMAIN nodes : InsideClosed(nodes[i], cleared[1], cleared[2])

\* C1 witness: after a run of animate that followed a resize, a node that was
\* advanced and not reset sits exactly on the right or the bottom edge.
C1_Witness ==
    /\ frames > 1
    /\ lastExec >= 0
    /\ \E i \in DOMAIN nodes :
        /\ ~updates[i].didReset
        /\ nodes[i] = updates[i].after
        /\ \/ nodes[i].x = FrameW /\ nodes[i].xOff = 0
           \/ nodes[i].y = FrameH /\ nodes[i].yOff = 0

\* The distance between the two positions of a pair test, exactly.  A
\* coordinate difference is g + off / 2^Frac grid steps; Span is its size in
\* units of 2^-Frac grid steps, as a digit sequence.
Span(g, off) ==
    IF g = 0 THEN BigOf(Abs(off))
    ELSE IF (g < 0) = (off < 0)
    THEN BigAdd(BigShl(BigOf(Abs(g)), Frac), BigOf(Abs(off)))
    ELSE BigSub(BigShl(BigOf(Abs(g)), Frac), BigOf(Abs(off)))

Squared(a) == BigMul(a, a)

\* The square of the distance between the positions of the pair test t, in
\* units of 2^-Frac grid steps, squared.
ExactSquaredDist(t) ==
    BigAdd(Squared(Span(t.x1 - t.x2, t.x1Off - t.x2Off)),
           Squared(Span(t.y1 - t.y2, t.y1Off - t.y2Off)))

\* The rounding of the script's arithmetic at the threshold, in units of
\* 2^-Frac grid steps: under 2^-43 of a pixel, about three steps of the
\* Numbers next to 150.  (The two differences are each rounded by at most
\* half a step, the sum of the squares by less than a step of the root, and
\* Math.sqrt by half a step.)
Rounding == 2^22

\* The positions of the pair test t are less than Threshold - tol apart, tol
\* in units of 2^-Frac grid steps and less than a grid step.  The positions
\* differ from their grid values by less than 2^-30 of a grid step, so a grid
\* distance other than Threshold decides; at grid distance Threshold the exact
\* squares are compared.
ApartBelow(t, tol) ==
    IF Abs(t.x1 - t.x2) > Threshold * Scale \/ Abs(t.y1 - t.y2) > Threshold * Scale
    THEN FALSE
    ELSE IF (t.x1 - t.x2) * (t.x1 - t.x2) + (t.y1 - t.y2) * (t.y1 - t.y2)
                # (Threshold * Scale) * (Threshold * Scale)
    THEN (t.x1 - t.x2) * (t.x1 - t.x2) + (t.y1 - t.y2) * (t.y1 - t.y2)
            < (Threshold * Scale) * (Threshold * Scale)
    ELSE BigCmp(ExactSquaredDist(t),
                Squared(BigSub(BigShl(BigOf(Threshold * Scale), Frac),
                               BigOf(tol)))) < 0

OnGridCircle(t) ==
    /\ Abs(t.x1 - t.x2) <= Threshold * Scale
    /\ Abs(t.y1 - t.y2) <= Threshold * Scale
    /\ (t.x1 - t.x2) * (t.x1 - t.x2) + (t.y1 - t.y2) * (t.y1 - t.y2)
         = (Threshold * Scale) * (Threshold * Scale)

C3_PairsUsePostTickPositions ==
    \A k \in DOMAIN tested :
        /\ tested[k].x1 = nodes[tested[k].i].x
        /\ tested[k].x1Off = nodes[tested[k].i].xOff
        /\ tested[k].y1 = nodes[tested[k].i].y
        /\ tested[k].y1Off = nodes[tested[k].i].yOff
        /\ tested[k].x2 = nodes[tested[k].j].x
        /\ tested[k].x2Off = nodes[tested[k].j].xOff
        /\ tested[k].y2 = nodes[tested[k].j].y
        /\ tested[k].y2Off = nodes[tested[k].j].yOff

\* C4: in every frame the tested pairs are exactly the pairs (i, j) with
\* i < j of the field, each once: the number of tests is n(n-1)/2 and the set
\* of tested pairs is the set of all such pairs.
C4_EachPairOnce ==
    frames > 0 =>
        LET n == Len(nodes)
        IN  /\ Len(tested) = (n * (n - 1)) \div 2
            /\ \A k \in DOMAIN tested : tested[k].i < tested[k].j
            /\ { << tested[k].i, tested[k].j >> : k \in DOMAIN tested }
                 = { p \in (1..n) \X (1..n) : p[1] < p[2] }

\* C4 witness: a frame over the 60 node field has run and drew a line.
C4_Witness ==
    /\ frames > 0
    /\ Len(nodes) = WideCount
    /\ \E k \in DOMAIN tested : tested[k].line

\* What C5 as claimed says of the update u of node i, m being the node before
\* the update advanced by its velocity.
UpdatedHalfOpen(i, u, m) ==
    /\ nodes[i] = u.after
    /\ IF ~InsideHalfOpen(m, cleared[1], cleared[2])
       THEN /\ u.didReset
            /\ u.after = reset([rng EXCEPT !.pos = u.drawn],
                               cleared[1], cleared[2]).node
       ELSE ~u.didReset /\ u.after = m

\* C5 as claimed: a frame updates every node once; a node whose advanced
\* position is outside [0, width) x [0, height) is replaced by a freshly
\* drawn node, any other node is its advanced self.
C5_ResetOutsideHalfOpen ==
    /\ Len(updates) = Len(nodes)
    /\ \A i \in DOMAIN updates :
        UpdatedHalfOpen(i, updates[i], Advanced(updates[i].before))

\* What C5 as amended says of the update u of node i, m being the node before
\* the update advanced by its velocity.
UpdatedClosed(i, u, m) ==
    /\ nodes[i] = u.after
    /\ IF ~InsideClosed(m, cleared[1], cleared[2])
       THEN /\ u.didReset
            /\ u.after = reset([rng EXCEPT !.pos = u.drawn],
                               cleared[1], cleared[2]).node
       ELSE ~u.didReset /\ u.after = m

\* C5 as amended: a frame updates every node once; a node whose advanced
\* position has x < 0, x > width, y < 0 or y > height is replaced by a freshly
\* drawn node (all six fields), any other node, one exactly on x = width or
\* y = height included, is its advanced self.
C5_ResetOutsideClosed ==
    /\ Len(updates) = Len(nodes)
    /\ \A i \in DOMAIN updates :
        UpdatedClosed(i, updates[i], Advanced(updates[i].before))

\* C5 witness: one frame reset a node, moved another by a non-zero velocity
\* and left a node alone whose advanced position is exactly on an edge.
C5_Witness ==
    /\ \E i \in DOMAIN updates : updates[i].didReset
    /\ \E i \in DOMAIN updates :
        /\ ~updates[i].didReset
        /\ updates[i].before.speedX # 0
    /\ \E i \in DOMAIN updates :
        /\ ~updates[i].didReset
        /\ \/ updates[i].after.x = FrameW /\ updates[i].after.xOff = 0
           \/ updates[i].after.y = FrameH /\ updates[i].after.yOff = 0

\* C6: once the field exists it holds 30 nodes when the viewport was narrower
\* than 800 at initialisation and 60 otherwise, whatever ran since.
C6_CountFixedByInitialWidth ==
    (phase = "running" /\ bgCanvas # "none") =>
        Len(nodes) = IF initW < NarrowBelow THEN NarrowCount ELSE WideCount

\* C6 witness: a field of 30 nodes created below 800 has been resized to 800
\* and has run a frame since.
C6_Witness ==
    /\ initW >= 0
    /\ initW < NarrowBelow
    /\ cleared[1] >= NarrowBelow
    /\ Len(nodes) = NarrowCount

\* A step in which the listener runs resize stores the window's new
\* dimensions and changes neither the nodes nor the random source nor the
\* record of the last frame, and a step that is not a run of animate leaves
\* the nodes where they are.
ResizeTouchesDimensionsOnly ==
    /\ (lastExec' # lastExec) =>
          /\ width' = winW' /\ height' = winH'
          /\ nodes' = nodes /\ rng' = rng
          /\ updates' = updates /\ tested' = tested
    /\ (frames' = frames) => nodes' = nodes

\* C7 as claimed: resize changes the stored dimensions only, and a node that
\* is outside [0, width) x [0, height) of the stored dimensions when a frame
\* comes to update it is reset by that update.
C7_ResizeLeavesParticles ==
    /\ [][ResizeTouchesDimensionsOnly]_vars
    /\ [](\A i \in DOMAIN updates :
            ~InsideHalfOpen(updates[i].before, cleared[1], cleared[2])
            => updates[i].didReset)

\* What C7 as amended says of the update u of a node that was outside the
\* stored dimensions, m being the node advanced by its velocity.
OutsiderUpdated(u, m) ==
    IF InsideClosed(m, cleared[1], cleared[2])
    THEN ~u.didReset /\ u.after = m
    ELSE u.didReset

\* C7 as amended: resize changes the stored dimensions only, and a node that
\* is outside [0, width) x [0, height) of the stored dimensions when a frame
\* comes to update it is advanced by its velocity and then reset exactly when
\* the advanced position has x < 0, x > width, y < 0 or y > height: a node the
\* update leaves on the right or bottom edge, or carries back inside, is kept.
C7_ResizeKeepsNodeUntilBeyond ==
    /\ [][ResizeTouchesDimensionsOnly]_vars
    /\ [](\A i \in DOMAIN updates :
            ~InsideHalfOpen(updates[i].before, cleared[1], cleared[2])
            => OutsiderUpdated(updates[i], Advanced(updates[i].before)))

\* C7 witness: after a shrink run by the listener a frame has updated a node
\* that lay outside the new dimensions and kept it, and has reset another.
C7_Witness ==
    /\ lastExec >= 0
    /\ cleared = << width, height >>
    /\ \E i \in DOMAIN updates :
        /\ ~InsideHalfOpen(updates[i].before, cleared[1], cleared[2])
        /\ ~updates[i].didReset
        /\ nodes[i] = updates[i].after
    /\ \E i \in DOMAIN updates :
        /\ ~InsideClosed(updates[i].before, cleared[1], cleared[2])
        /\ updates[i].didReset

\* C8: two successive executions of resize by the throttled listener are at
\* least 200 ms apart.
C8_ThrottledExecutionsApart ==
    prevExec >= 0 => lastExec - prevExec >= ThrottleLimit

\* C8 witness: the listener has executed resize twice.
C8_Witness ==
    /\ prevExec >= 0
    /\ lastExec > prevExec

\* C9 as claimed: once the canvas is detached from the document no further
\* run of animate happens.
C9_NoFrameAfterDetach ==
    [][ bgCanvas = "detached" => frames' = frames ]_vars

\* C14: the resize that runs before any node exists does not fail and is
\* observed by the construction: the stored dimensions are the window's, and
\* every node as constructed lies in [0, width) x [0, height) of them.
C14_InitialNodesInsideStoredDims ==
    (phase = "running" /\ bgCanvas # "none") =>
        /\ born.width = born.innerWidth
        /\ born.height = born.innerHeight
        /\ Len(born.nodes) = NodeCount(born.innerWidth)
        /\ \A k \in 1..Len(born.nodes) :
              InsideHalfOpen(born.nodes[k], born.width, born.height)

\* C14 happens: a field was constructed, with a node away from the origin.
C14_Witness ==
    /\ phase = "running"
    /\ Len(born.nodes) = NodeCount(born.innerWidth)
    /\ born.width > 0
    /\ \E k \in 1..Len(born.nodes) :
          born.nodes[k].x > 0 /\ born.nodes[k].y > 0

\* C15: once no throttle period is in progress, the stored dimensions are the
\* window's (the last resize of a burst is not lost).
C15_LastResizeNotLost ==
    (phase = "running" /\ bgCanvas # "none" /\ ~inThrottle) =>
        (width = winW /\ height = winH)

(* ======================= the contact form ============================== *)

\* Calls of sendMessage in a run.
MaxCalls == 2

\* The step of the clock and its last value while the form is watched, ms.
FormStep == 1500
MaxFormNow == 4500

\* The delay of the revert timer set in sendMessage's finally block, ms.
RevertDelay == 3000

\* The label of .send-btn in the page as loaded.
InitialLabel == "[ SEND ]"

SendingLabel == "[ TRANSMITTING... ]"
SuccessLabel == "[ TRANSMISSION SUCCESS ]"
FailureLabel == "[ FAILED. RETRY? ]"

\* What the awaited fetch can bring: a response with ok, a response without,
\* a rejection.
Outcomes == { "ok", "notok", "rejected" }

\* The nebula field left out: no part of it runs.
FieldOff ==
    /\ phase = "off"
    /\ bgCanvas = "none"
    /\ winW = 800
    /\ winH = 600
    /\ width = 0
    /\ height = 0
    /\ nodes = << >>
    /\ rng = [ tape |-> << >>, pos |-> 0 ]
    /\ rafPending = FALSE
    /\ frames = 0
    /\ updates = 0
    /\ tested = << >>
    /\ cleared = << 0, 0 >>
    /\ inThrottle = FALSE
    /\ timerAt = -1
    /\ lastExec = -1
    /\ prevExec = -1
    /\ initW = -1
    /\ born = [ nodes |-> << >>, width |-> 0, height |-> 0,
                innerWidth |-> 0, innerHeight |-> 0 ]

\* Variant of Blocked that does not look at the message.
BlockedEmailOnly(f) ==
    ~f.btnPresent \/ ~f.formPresent \/ f.email = ""

\* The two early returns of sendMessage: if(!btn || !form) return; and
\* if(!email || !message) return;
Blocked(f) ==
    ~f.btnPresent \/ ~f.formPresent \/ f.email = "" \/ f.message = ""

\* sendMessage up to its await: the early returns, then the label the button
\* has is kept, the sending label is shown, pointer events are switched off and
\* the request leaves.
sendMessage(f) ==
    IF Blocked(f)
    THEN [f EXCEPT !.calls = @ + 1, !.last = "returned"]
    ELSE [f EXCEPT !.calls = @ + 1,
                   !.sent = @ + 1,
                   !.last = "sent",
                   !.text = SendingLabel,
                   !.pointerEvents = "none",
                   !.inv = Append(@, [ originalText |-> f.text,
                                       stage |-> "awaiting",
                                       outcome |-> "none",
                                       shown |-> "none",
                                       outcomeAt |-> -1,
                                       timer |-> 0,
                                       revertedAt |-> -1,
                                       restored |-> "none" ])]

\* sendMessage after its await, for invocation k: the success branch or the
\* catch block, then the finally block sets the revert timer.
afterFetch(f, k, oc, t) ==
    LET shown == IF oc = "ok" THEN SuccessLabel ELSE FailureLabel
    IN  [f EXCEPT !.text = shown,
                  !.color = IF oc = "ok" THEN "var(--highlight-color)"
                                         ELSE "#ff3333",
                  !.email = IF oc = "ok" THEN "" ELSE @,
                  !.message = IF oc = "ok" THEN "" ELSE @,
                  !.timers = @ + 1,
                  !.last = oc,
                  !.inv[k] = [@ EXCEPT !.stage = "showing",
                                       !.outcome = oc,
                                       !.shown = shown,
                                       !.outcomeAt = t,
                                       !.timer = f.timers + 1]]

\* The callback of the revert timer of invocation k.
revert(f, k, t) ==
    [f EXCEPT !.text = f.inv[k].originalText,
              !.pointerEvents = "all",
              !.color = "",
              !.last = "reverted",
              !.inv[k] = [@ EXCEPT !.stage = "done",
                                   !.revertedAt = t,
                                   !.restored = f.inv[k].originalText]]

InitForm ==
    /\ FieldOff
    /\ now = 0
    /\ \E fp \in BOOLEAN, bp \in BOOLEAN :
          form = [ on |-> TRUE, formPresent |-> fp, btnPresent |-> bp,
                   email |-> "", message |-> "",
                   text |-> InitialLabel, pointerEvents |-> "", color |-> "",
                   calls |-> 0, sent |-> 0, timers |-> 0, last |-> "loaded",
                   inv |-> << >> ]
    /\ theme = Idle
    /\ globe = Idle
    /\ boot = Idle
    /\ scr = Idle
    /\ typ = Idle

\* The user edits #email or #message.
TypeField ==
    /\ form.on
    /\ \E v \in { "", "a@b" } :
          \/ /\ v # form.email
             /\ form' = [form EXCEPT !.email = v, !.last = "typed"]
          \/ /\ v # form.message
             /\ form' = [form EXCEPT !.message = v, !.last = "typed"]
    /\ UNCHANGED << fieldVars, now, theme, globe, boot, scr, typ >>

\* sendMessage is invoked (a click, a key on the focused button, a call).
SendMessage ==
    /\ form.on
    /\ form.calls < MaxCalls
    /\ form' = sendMessage(form)
    /\ UNCHANGED << fieldVars, now, theme, globe, boot, scr, typ >>

\* The fetch of an awaiting invocation settles.
FetchSettles ==
    /\ form.on
    /\ \E k \in 1..Len(form.inv), oc \in Outcomes :
          /\ form.inv[k].stage = "awaiting"
          /\ form' = afterFetch(form, k, oc, now)
    /\ UNCHANGED << fieldVars, now, theme, globe, boot, scr, typ >>

\* A revert timer fires: it is due, and no timer set before it is waiting.
RevertTimeout ==
    /\ form.on
    /\ \E k \in 1..Len(form.inv) :
          /\ form.inv[k].stage = "showing"
          /\ now >= form.inv[k].outcomeAt + RevertDelay
          /\ \A j \in 1..Len(form.inv) :
                form.inv[j].stage = "showing" =>
                    form.inv[j].timer >= form.inv[k].timer
          /\ form' = revert(form, k, now)
    /\ UNCHANGED << fieldVars, now, theme, globe, boot, scr, typ >>

\* Time passes at the form.
FormTick ==
    /\ form.on
    /\ now < MaxFormNow
    /\ now' = now + FormStep
    /\ UNCHANGED << fieldVars, pageVars >>

NextForm ==
    \/ TypeField
    \/ SendMessage
    \/ FetchSettles
    \/ RevertTimeout
    \/ FormTick

SpecForm == InitForm /\ [][NextForm]_vars

\* No invocation of sendMessage is between its start and its revert.
FormQuiet ==
    \A k \in 1..Len(form.inv) : form.inv[k].stage = "done"

\* C11: every invocation that passes the checks shows the sending label, then
\* the success label (ok) or the failure label (non-ok, rejected), and 3000 ms
\* after the outcome restores the label it started with, enables pointer
\* events and clears the colour; pointer events are off from sending to revert.
C11_ThreeStatesThenRevert ==
    form.on =>
        \A k \in 1..Len(form.inv) :
            LET i == form.inv[k]
            IN  /\ i.stage # "done" => form.pointerEvents = "none"
                /\ i.stage # "awaiting" =>
                      i.shown = IF i.outcome = "ok" THEN SuccessLabel
                                                    ELSE FailureLabel
                /\ i.stage = "done" =>
                      /\ i.revertedAt >= i.outcomeAt + RevertDelay
                      /\ i.restored = i.originalText

\* C16: a call that meets a missing form or button, or an empty email or
\* message, sends nothing and changes nothing; the fields are emptied only by
\* an ok response; a non-ok response or a rejection shows the failure label
\* and leaves the fields.
C16_GuardsAndReset ==
    [][ form.on =>
          /\ ( /\ form'.calls = form.calls + 1
               /\ ( ~form.formPresent \/ ~form.btnPresent
                    \/ form.email = "" \/ form.message = "" ) )
             => /\ form'.sent = form.sent
                /\ form'.inv = form.inv
                /\ form'.text = form.text
                /\ form'.pointerEvents = form.pointerEvents
                /\ form'.color = form.color
                /\ form'.email = form.email
                /\ form'.message = form.message
          /\ (form'.email # form.email \/ form'.message # form.message)
             => form'.last \in { "typed", "ok" }
          /\ form'.last = "ok" /\ form' # form
             => form'.email = "" /\ form'.message = ""
          /\ form'.last \in { "notok", "rejected" } /\ form' # form
             => /\ form'.text = FailureLabel
                /\ form'.email = form.email
                /\ form'.message = form.message
      ]_vars

\* C16 happens: a call has returned early although the form and the button
\* exist, and a failed request has left the user's input in the form.
C16_Witness ==
    /\ form.on
    /\ form.formPresent /\ form.btnPresent
    /\ form.calls > form.sent
    /\ form.last \in { "notok", "rejected" }
    /\ form.email # "" /\ form.message # ""

\* C17: once every invocation has had its response and its revert, the button
\* shows the label it had before the first one, pointer events are enabled,
\* the colour is cleared.
C17_QuietButtonRestored ==
    (form.on /\ FormQuiet) =>
        /\ form.text = InitialLabel
        /\ form.pointerEvents # "none"
        /\ form.color = ""

(* ======================== the theme toggle ============================= *)

\* Clicks on #theme-toggle in a run.
MaxClicks == 8

\* What localStorage can hold under 'theme' when the page loads: nothing
\* ("none" stands for null), the empty string, the two themes, a foreign value.
StoredValues == { "none", "", "light", "dark", "blue" }

Themes == { "light", "dark" }

\* A value the script treats as false: null or the empty string.
Falsy(v) == v \in { "none", "" }

\* let savedTheme = localStorage.getItem('theme'); if (!savedTheme) savedTheme
\* = matchMedia('(prefers-color-scheme: light)').matches ? 'light' : 'dark'
SavedTheme(stored, prefersLight) ==
    IF Falsy(stored)
    THEN (IF prefersLight THEN "light" ELSE "dark")
    ELSE stored

\* Variant of NewTheme that keeps a theme it knows.
NewThemeSame(attr) ==
    LET currentTheme == IF Falsy(attr) THEN "dark" ELSE attr
    IN  IF currentTheme = "dark" THEN "dark" ELSE "light"

\* The click handler's choice: currentTheme = getAttribute('data-theme') ||
\* 'dark'; newTheme = currentTheme === 'dark' ? 'light' : 'dark'
NewTheme(attr) ==
    LET currentTheme == IF Falsy(attr) THEN "dark" ELSE attr
    IN  IF currentTheme = "dark" THEN "light" ELSE "dark"

\* The icon put in the button for a theme.
Icon(th) == IF th = "dark" THEN "half" ELSE "new"

InitTheme ==
    /\ FieldOff
    /\ now = 0
    /\ form = Idle
    /\ \E bp \in BOOLEAN, st \in StoredValues, pl \in BOOLEAN :
          theme = [ on |-> TRUE, btnPresent |-> bp, prefersLight |-> pl,
                    initStored |-> st, stored |-> st, attr |-> "none",
                    applied |-> "none", icon |-> "none", inited |-> FALSE,
                    clicks |-> 0, written |-> << >> ]
    /\ globe = Idle
    /\ boot = Idle
    /\ scr = Idle
    /\ typ = Idle

\* initThemeToggle(): nothing without the button; else the saved or preferred
\* theme goes to data-theme and the click listener is added.
InitThemeToggle ==
    /\ theme.on
    /\ ~theme.inited
    /\ theme' =
          IF ~theme.btnPresent
          THEN [theme EXCEPT !.inited = TRUE]
          ELSE LET savedTheme == SavedTheme(theme.stored, theme.prefersLight)
               IN  [theme EXCEPT !.inited = TRUE,
                                 !.attr = savedTheme,
                                 !.applied = savedTheme,
                                 !.icon = Icon(savedTheme)]
    /\ UNCHANGED << fieldVars, now, form, globe, boot, scr, typ >>

\* A click on #theme-toggle: the listener exists once initThemeToggle found
\* the button.
ClickToggle ==
    /\ theme.on
    /\ theme.inited
    /\ theme.btnPresent
    /\ theme.clicks < MaxClicks
    /\ LET newTheme == NewTheme(theme.attr)
       IN  theme' = [theme EXCEPT !.attr = newTheme,
                                  !.stored = newTheme,
                                  !.icon = Icon(newTheme),
                                  !.clicks = @ + 1,
                                  !.written = Append(@, newTheme)]
    /\ UNCHANGED << fieldVars, now, form, globe, boot, scr, typ >>

NextTheme ==
    \/ InitThemeToggle
    \/ ClickToggle

SpecTheme == InitTheme /\ [][NextTheme]_vars

\* C12 as stated: for any stored value and any clicks, every value written is
\* 'light' or 'dark', after each click the stored value is data-theme, and
\* data-theme is always 'light' or 'dark' once the toggle is set up.
C12_DataThemeAlwaysLightOrDark ==
    (theme.on /\ theme.inited /\ theme.btnPresent) =>
        /\ \A i \in 1..Len(theme.written) : theme.written[i] \in Themes
        /\ theme.clicks > 0 => theme.stored = theme.attr
        /\ theme.attr \in Themes

\* C12: every value written is 'light' or 'dark'; initThemeToggle writes
\* nothing; after each click the stored value is data-theme and each click
\* changes data-theme to the other theme ('dark' from a foreign value);
\* data-theme is 'light' or 'dark' after the set-up when the stored value was
\* absent, empty, 'light' or 'dark', and in every case after the first click.
C12_ThemeLightOrDarkOnceClicked ==
    (theme.on /\ theme.inited /\ theme.btnPresent) =>
        /\ \A i \in 1..Len(theme.written) : theme.written[i] \in Themes
        /\ Len(theme.written) = theme.clicks
        /\ theme.clicks = 0 => theme.stored = theme.initStored
        /\ theme.clicks > 0 =>
              /\ theme.stored = theme.attr
              /\ theme.stored = theme.written[theme.clicks]
              /\ theme.attr \in Themes
              /\ theme.written[1] # theme.applied
              /\ theme.applied \notin Themes => theme.written[1] = "dark"
        /\ \A i \in 1..(Len(theme.written) - 1) :
              theme.written[i + 1] # theme.written[i]
        /\ (Falsy(theme.initStored) \/ theme.initStored \in Themes)
              => theme.attr \in Themes
        /\ theme.icon = Icon(theme.attr)

\* C12 happens: a foreign value was stored, and clicks have replaced it.
C12_Witness ==
    /\ theme.on
    /\ theme.initStored \notin Themes
    /\ ~Falsy(theme.initStored)
    /\ theme.clicks >= 2
    /\ theme.attr = "light"

(* ============================ the globe ================================ *)

\* The largest coordinate difference of a pair and the largest radius drawn.
MaxCoord == 6
MaxRadius == 11

\* Variant of GlobeLink that rejects at half the radius.
GlobeLinkRejectsAtHalf(dx, dy, dz, radius) ==
    IF 10 * Abs(dx) > 5 * radius
    THEN FALSE
    ELSE 10 * (dx * dx + dy * dy + dz * dz) < 3 * radius * radius

\* The pair test of the globe's draw: if (Math.abs(dx) > radius*0.6) continue;
\* then (dx*dx + dy*dy + dz*dz) < (radius*radius * 0.3) draws the line.
GlobeLink(dx, dy, dz, radius) ==
    IF 10 * Abs(dx) > 6 * radius
    THEN FALSE
    ELSE 10 * (dx * dx + dy * dy + dz * dz) < 3 * radius * radius

InitGlobe ==
    /\ FieldOff
    /\ now = 0
    /\ form = Idle
    /\ theme = Idle
    /\ \E dx \in (-MaxCoord)..MaxCoord, dy \in (-MaxCoord)..MaxCoord,
          dz \in (-MaxCoord)..MaxCoord, r \in 0..MaxRadius :
          globe = [ on |-> TRUE, dx |-> dx, dy |-> dy, dz |-> dz,
                    radius |-> r, tested |-> FALSE, line |-> FALSE ]
    /\ boot = Idle
    /\ scr = Idle
    /\ typ = Idle

\* The inner loop of draw meets the pair.
GlobeTestPair ==
    /\ globe.on
    /\ ~globe.tested
    /\ globe' = [globe EXCEPT
                    !.tested = TRUE,
                    !.line = GlobeLink(globe.dx, globe.dy, globe.dz,
                                       globe.radius)]
    /\ UNCHANGED << fieldVars, now, form, theme, boot, scr, typ >>

NextGlobe == GlobeTestPair

SpecGlobe == InitGlobe /\ [][NextGlobe]_vars

\* C13: the decision taken with the early rejection is the decision of the
\* squared-distance test alone, for every pair and every radius.
C13_EarlyRejectionKeepsDecision ==
    (globe.on /\ globe.tested) =>
        ( globe.line <=>
            10 * (globe.dx * globe.dx + globe.dy * globe.dy
                  + globe.dz * globe.dz)
              < 3 * globe.radius * globe.radius )

\* C13 happens: a pair just inside the rejection bound was tested and linked,
\* with dx more than half the radius.
C13_Witness ==
    /\ globe.on
    /\ globe.tested
    /\ globe.line
    /\ 2 * Abs(globe.dx) > globe.radius

(* ========================= the boot sequence =========================== *)

\* The step of the clock and its last value while the page loads, ms.
BootStep == 300
MaxBootNow == 3300

\* const totalTime = 2500, the delay of the body's fade-in timer, the delay
\* of the removal after the fade, ms.
TotalTime == 2500
LoadedDelay == 100
FadeMargin == 100
RemoveDelay == 500

BootMessages == << "BIOS...OK", "Kernel...Loaded", "GPU...Init",
                   "Net...Connected", "User...Auth", "System...Ready" >>

\* The delay of the timer of message index (from 0): delay grows by
\* totalTime / bootMessages.length per message, and setTimeout drops the
\* fraction of a millisecond.
Delay(index) == (index * TotalTime) \div Len(BootMessages)

\* percent = ((index + 1) / bootMessages.length) * 100, in 1/100 percent.
Percent(index) == ((index + 1) * 10000) \div Len(BootMessages)

\* The timers of messages index.. of the forEach in runBootSequence, set at t.
RECURSIVE MessageTimers(_, _)
MessageTimers(index, t) ==
    IF index >= Len(BootMessages)
    THEN << >>
    ELSE << [ kind |-> "message", index |-> index, due |-> t + Delay(index) ] >>
         \o MessageTimers(index + 1, t)

\* The pending timer that fires next: the earliest due, the first set among
\* equals.
Earliest(ts) ==
    CHOOSE i \in 1..Len(ts) :
        \A j \in 1..Len(ts) :
            ts[j].due > ts[i].due \/ (ts[j].due = ts[i].due /\ j >= i)

\* The timers without the i-th.
Without(ts, i) == SubSeq(ts, 1, i - 1) \o SubSeq(ts, i + 1, Len(ts))

\* runBootSequence(screen) at time t: nothing without #boot-log or
\* .boot-progress; else the six message timers and the fade timer.
runBootSequence(b, t) ==
    IF ~b.logPresent \/ ~b.progressPresent
    THEN b
    ELSE [b EXCEPT !.timers = @ \o MessageTimers(0, t)
                                \o << [ kind |-> "fade", index |-> 0,
                                        due |-> t + TotalTime + FadeMargin ] >>,
                   !.ran = TRUE]

\* startPageAnimations(), as far as the page load is concerned: it was
\* called, and it threw when the command text stands in a section without
\* data-command (cmd is null and typeText reads text.length).
startPageAnimations(b) ==
    [b EXCEPT !.startCount = @ + 1,
              !.calls = Append(@, "startPageAnimations"),
              !.threw = b.cmdNull]

\* initBootOrPageLoad() at time t.
initBootOrPageLoad(b, t) ==
    LET b1 == [b EXCEPT !.inited = TRUE,
                        !.timers = Append(@, [ kind |-> "loaded", index |-> 0,
                                               due |-> t + LoadedDelay ])]
    IN  IF b.screen # "none"
        THEN runBootSequence(b1, t)
        ELSE startPageAnimations(b1)

InitBoot ==
    /\ FieldOff
    /\ now = 0
    /\ form = Idle
    /\ theme = Idle
    /\ globe = Idle
    /\ \E sc \in { "none", "shown" }, lp \in BOOLEAN, pp \in BOOLEAN,
          cn \in BOOLEAN :
          boot = [ on |-> TRUE, screen |-> sc, hadScreen |-> sc # "none",
                   logPresent |-> lp, progressPresent |-> pp,
                   cmdNull |-> cn, threw |-> FALSE,
                   inited |-> FALSE, ran |-> FALSE, loaded |-> FALSE,
                   log |-> << >>, progress |-> 0, timers |-> << >>,
                   fadeAt |-> -1, startCount |-> 0, calls |-> << >> ]
    /\ scr = Idle
    /\ typ = Idle

\* DOMContentLoaded reaches initBootOrPageLoad.
InitBootOrPageLoad ==
    /\ boot.on
    /\ ~boot.inited
    /\ boot' = initBootOrPageLoad(boot, now)
    /\ UNCHANGED << fieldVars, now, form, theme, globe, scr, typ >>

\* The timer that fires next is due and is of kind k.
Fires(k) ==
    /\ boot.on
    /\ boot.timers # << >>
    /\ boot.timers[Earliest(boot.timers)].kind = k
    /\ now >= boot.timers[Earliest(boot.timers)].due

\* The body's fade-in timer.
LoadedTimeout ==
    /\ Fires("loaded")
    /\ boot' = [boot EXCEPT !.loaded = TRUE,
                            !.timers = Without(@, Earliest(boot.timers))]
    /\ UNCHANGED << fieldVars, now, form, theme, globe, scr, typ >>

\* The timer of a boot message: the line is appended to the log and the
\* progress bar is set.
MessageTimeout ==
    /\ Fires("message")
    /\ LET index == boot.timers[Earliest(boot.timers)].index
       IN  boot' = [boot EXCEPT
                       !.log = Append(@, "> " \o BootMessages[index + 1]),
                       !.progress = Percent(index),
                       !.timers = Without(@, Earliest(boot.timers))]
    /\ UNCHANGED << fieldVars, now, form, theme, globe, scr, typ >>

\* The fade timer: the screen goes transparent and the removal is scheduled.
FadeTimeout ==
    /\ Fires("fade")
    /\ boot' = [boot EXCEPT
                   !.screen = "faded",
                   !.fadeAt = now,
                   !.timers = Append(Without(@, Earliest(boot.timers)),
                                     [ kind |-> "remove", index |-> 0,
                                       due |-> now + RemoveDelay ])]
    /\ UNCHANGED << fieldVars, now, form, theme, globe, scr, typ >>

\* The removal timer: screen.remove(); startPageAnimations(); init3DGlobe();
\* the last is not reached when startPageAnimations throws.
RemoveTimeout ==
    /\ Fires("remove")
    /\ LET b1 == [boot EXCEPT !.screen = "removed",
                              !.calls = Append(@, "remove"),
                              !.timers = Without(@, Earliest(boot.timers))]
           b2 == startPageAnimations(b1)
       IN  boot' = IF b2.threw
                   THEN b2
                   ELSE [b2 EXCEPT !.calls = Append(@, "init3DGlobe")]
    /\ UNCHANGED << fieldVars, now, form, theme, globe, scr, typ >>

\* Time passes while the page loads: by a step, or up to the next timer.
BootTick ==
    /\ boot.on
    /\ now < MaxBootNow
    /\ \/ now' = now + BootStep
       \/ /\ boot.timers # << >>
          /\ boot.timers[Earliest(boot.timers)].due > now
          /\ now' = boot.timers[Earliest(boot.timers)].due
    /\ UNCHANGED << fieldVars, pageVars >>

NextBoot ==
    \/ InitBootOrPageLoad
    \/ LoadedTimeout
    \/ MessageTimeout
    \/ FadeTimeout
    \/ RemoveTimeout
    \/ BootTick

SpecBoot == InitBoot /\ [][NextBoot]_vars

\* C18: on every page load startPageAnimations is called, exactly once, and a
\* boot screen that exists is faded and removed: when no timer of the page
\* load is left, both have happened.
C18_AnimationsStartAndScreenGoes ==
    /\ boot.on => boot.startCount <= 1
    /\ (boot.on /\ boot.inited /\ boot.timers = << >>) =>
          /\ boot.startCount = 1
          /\ boot.screen \in { "none", "removed" }

\* The messages of the log so far are the first of the array, in its order.
LogInOrder ==
    \A k \in 1..Len(boot.log) : boot.log[k] = "> " \o BootMessages[k]

\* C19: when the boot sequence runs, the six messages come in array order, one
\* per totalTime/6 from time 0; the progress is (k/6)*100% after the k-th and
\* never falls; the fade starts no sooner than totalTime + 100 ms, with all six
\* shown and the progress at 100%; the removal comes no sooner than 500 ms
\* after the fade, and then startPageAnimations and init3DGlobe are called.
C19_BootMessagesThenFadeThenStart ==
    /\ [] ( (boot.on /\ boot.ran) =>
              /\ Len(boot.log) <= Len(BootMessages)
              /\ LogInOrder
              /\ 6 * boot.progress <= Len(boot.log) * 10000
              /\ 6 * (boot.progress + 1) > Len(boot.log) * 10000
              /\ boot.screen # "shown" =>
                    Len(boot.log) = 6 /\ boot.progress = 10000
              /\ boot.screen = "removed" =>
                    /\ boot.calls = << "remove", "startPageAnimations",
                                       "init3DGlobe" >>
                    /\ boot.startCount = 1
              /\ boot.screen # "removed" => boot.calls = << >> )
    /\ [][ (boot.on /\ boot.ran) =>
              /\ Len(boot'.log) > Len(boot.log) =>
                    /\ Len(boot'.log) = Len(boot.log) + 1
                    /\ 6 * now >= Len(boot.log) * TotalTime - 5
                    /\ boot'.progress > boot.progress
              /\ boot'.progress >= boot.progress
              /\ (boot.screen = "shown" /\ boot'.screen # "shown") =>
                    /\ boot'.screen = "faded"
                    /\ now >= TotalTime + 100
              /\ (boot.screen # "removed" /\ boot'.screen = "removed") =>
                    /\ boot.screen = "faded"
                    /\ now >= boot.fadeAt + 500
         ]_vars

(* ========================== TextScramble =============================== *)

\* The longest text and the calls of setText in a run.
MaxLen == 2
MaxSetTexts == 2

\* The characters of the texts: a letter and the character that opens a tag.
Alphabet == { "a", "<" }

\* The texts: every string over the alphabet up to the longest.
Texts == UNION { [1..n -> Alphabet] : n \in 0..MaxLen }

\* The values of Math.floor(Math.random() * 10) that are drawn: the ends.
Draws == { 0, 9 }

\* The character of this.chars that is drawn.
DudChars == { "<" }

\* The tokens of an HTML string that are not empty.
NonEmpty(tokens) == SelectSeq(tokens, LAMBDA tk : tk.c # "")

\* What the element shows, its content being the tokens from the i-th on: a
\* character of a text node of the page as loaded ("node") shows as it is;
\* the others were assigned to innerHTML, the parser being inside a tag or
\* not: a '<' before a letter opens a tag, which
\* swallows the text up to the next '>'; the '>' of a dud's span closes an
\* open tag, and the dud's character is text.
RECURSIVE Parsed(_, _, _)
Parsed(tokens, i, inTag) ==
    IF i > Len(tokens)
    THEN << >>
    ELSE LET tk == tokens[i]
         IN  IF tk.k \in { "dud", "node" }
             THEN << tk.c >> \o Parsed(tokens, i + 1, FALSE)
             ELSE IF inTag
             THEN Parsed(tokens, i + 1, tk.c # ">")
             ELSE IF /\ tk.c = "<"
                     /\ i < Len(tokens)
                     /\ tokens[i + 1].k = "text"
                     /\ tokens[i + 1].c = "a"
             THEN Parsed(tokens, i + 1, TRUE)
             ELSE << tk.c >> \o Parsed(tokens, i + 1, FALSE)

\* el.innerText of an element whose content is the tokens.
InnerText(tokens) == Parsed(NonEmpty(tokens), 1, FALSE)

\* The element as the page has it: its text, in a text node.
AsText(text) == [i \in 1..Len(text) |-> [ k |-> "node", c |-> text[i] ]]

\* oldText[i] || '' and newText[i] || ''.
CharAt(text, i) == IF i <= Len(text) THEN text[i] ELSE ""

Max(a, b) == IF a >= b THEN a ELSE b

\* cancelAnimationFrame(id) on the pending frame requests.
cancelAnimationFrame(pending, id) == pending \ { id }

\* The entry of the queue is past its end, or in its scramble, at the frame.
Done(e, frame) == frame >= e.end
Scrambling(e, frame) == frame < e.end /\ frame >= e.start

\* A choice of characters for update(): one for every entry in its scramble
\* that has none, one or "keep" for the others in their scramble.
Choices(s) ==
    { ch \in [1..Len(s.queue) -> DudChars \cup { "keep" }] :
        \A i \in 1..Len(s.queue) :
            IF Scrambling(s.queue[i], s.frame)
            THEN ch[i] = "keep" => s.queue[i].char # ""
            ELSE ch[i] = "keep" }

\* update(): the output is built from the queue, put in the element, and the
\* promise is resolved when every entry is past its end; else the next frame
\* is requested and the frame counter grows.
scrUpdate(s, ch) ==
    LET q == [i \in 1..Len(s.queue) |->
                 IF Scrambling(s.queue[i], s.frame) /\ ch[i] # "keep"
                 THEN [s.queue[i] EXCEPT !.char = ch[i]]
                 ELSE s.queue[i]]
        output == [i \in 1..Len(q) |->
                     IF Done(q[i], s.frame)
                     THEN [ k |-> "text", c |-> q[i].to ]
                     ELSE IF Scrambling(q[i], s.frame)
                     THEN [ k |-> "dud", c |-> q[i].char ]
                     ELSE [ k |-> "text", c |-> q[i].from ]]
        complete == Cardinality({ i \in 1..Len(q) : Done(q[i], s.frame) })
    IN  IF complete = Len(q)
        THEN [s EXCEPT !.queue = q, !.el = output, !.updates = @ + 1,
                       !.resolved = @ + 1]
        ELSE [s EXCEPT !.queue = q, !.el = output, !.updates = @ + 1,
                       !.frameRequest = s.nextId,
                       !.pending = @ \cup { s.nextId },
                       !.nextId = @ + 1,
                       !.frame = @ + 1]

\* setText(newText) up to its call of update(), with the draws ds of start
\* and of end - start for every entry.
setText(s, newText, ds) ==
    LET oldText == InnerText(s.el)
        length == Max(Len(oldText), Len(newText))
    IN  [s EXCEPT !.queue = [i \in 1..length |->
                                [ from |-> CharAt(oldText, i),
                                  to |-> CharAt(newText, i),
                                  start |-> ds[i][1],
                                  end |-> ds[i][1] + ds[i][2],
                                  char |-> "" ]],
                  !.pending = cancelAnimationFrame(@, s.frameRequest),
                  !.frame = 0,
                  !.updates = 0,
                  !.newest = newText,
                  !.setTexts = @ + 1]

InitScramble ==
    /\ FieldOff
    /\ now = 0
    /\ form = Idle
    /\ theme = Idle
    /\ globe = Idle
    /\ boot = Idle
    /\ \E text \in Texts :
          scr = [ on |-> TRUE, el |-> AsText(text), queue |-> << >>,
                  frame |-> 0, frameRequest |-> 0, pending |-> { },
                  nextId |-> 1, updates |-> 0, resolved |-> 0,
                  newest |-> << >>, setTexts |-> 0 ]
    /\ typ = Idle

\* setText(newText) is called.
SetText ==
    /\ scr.on
    /\ scr.setTexts < MaxSetTexts
    /\ \E newText \in Texts :
          LET length == Max(Len(InnerText(scr.el)), Len(newText))
          IN  \E ds \in [1..length -> Draws \X Draws] :
                  LET s1 == setText(scr, newText, ds)
                  IN  \E ch \in Choices(s1) : scr' = scrUpdate(s1, ch)
    /\ UNCHANGED << fieldVars, now, form, theme, globe, boot, typ >>

\* The requested animation frame comes: update() runs.
ScrambleFrame ==
    /\ scr.on
    /\ \E id \in scr.pending :
          LET s1 == [scr EXCEPT !.pending = @ \ { id }]
          IN  \E ch \in Choices(s1) : scr' = scrUpdate(s1, ch)
    /\ UNCHANGED << fieldVars, now, form, theme, globe, boot, typ >>

NextScramble ==
    \/ SetText
    \/ ScrambleFrame

SpecScramble == InitScramble /\ [][NextScramble]_vars

\* C20: every entry has 0 <= start <= end <= 18; the loop of a setText stops
\* after at most 19 updates; at most one frame is requested at a time; when
\* the loop has stopped the promise was resolved and the element shows the
\* newest text exactly.
C20_ScrambleEndsWithNewText ==
    scr.on =>
        /\ \A i \in 1..Len(scr.queue) :
              /\ 0 <= scr.queue[i].start
              /\ scr.queue[i].start <= scr.queue[i].end
              /\ scr.queue[i].end <= 18
        /\ scr.updates <= 19
        /\ Cardinality(scr.pending) <= 1
        /\ (scr.setTexts > 0 /\ scr.pending = { }) =>
              /\ scr.resolved >= 1
              /\ InnerText(scr.el) = scr.newest

(* ============================= typeText ================================ *)

\* The longest text typed.
MaxTypeLen == 3

\* The step of the clock and its last value while the text is typed, ms.
TypeStep == 200
MaxTypeNow == 600

\* speed = 25, the delay between two characters, and the delay of the timer
\* that removes the cursor, ms.
TypeSpeed == 25
CursorDelay == 500

\* The characters of the texts typed: a letter and the cursor's character.
TypeAlphabet == { "a", "_" }

\* The texts typed: every string over the alphabet up to the longest.
TypeTexts == UNION { [1..n -> TypeAlphabet] : n \in 0..MaxTypeLen }

\* The places of s that hold '_'.
Underscores(s) == { k \in 1..Len(s) : s[k] = "_" }

\* s.replace('_', ''): the first '_' of s is taken out, if there is one.
ReplaceFirst(s) ==
    IF Underscores(s) = { }
    THEN s
    ELSE LET k == CHOOSE k \in Underscores(s) :
                      \A j \in Underscores(s) : k <= j
         IN  SubSeq(s, 1, k - 1) \o SubSeq(s, k + 1, Len(s))

\* type() at time t: text.length fails on null; the next character goes in
\* before a new cursor and type is set to run again; after the last one the
\* timer that removes the cursor is set.
type(ty, t) ==
    IF ty.textNull
    THEN [ty EXCEPT !.threw = TRUE,
                    !.timer = [ kind |-> "none", due |-> -1 ]]
    ELSE IF ty.i < Len(ty.text)
    THEN [ty EXCEPT !.el = ReplaceFirst(ty.el) \o << ty.text[ty.i + 1] >>
                                               \o << "_" >>,
                    !.i = @ + 1,
                    !.lastCharAt = t,
                    !.timer = [ kind |-> "type", due |-> t + TypeSpeed ]]
    ELSE [ty EXCEPT !.timer = [ kind |-> "cursor", due |-> t + CursorDelay ]]

\* typeText(element, text) at time t: nothing without the element; else the
\* element gets the cursor's span and type() runs for the first time.
typeText(ty, t) ==
    IF ~ty.elPresent
    THEN [ty EXCEPT !.called = TRUE]
    ELSE type([ty EXCEPT !.called = TRUE, !.el = << "_" >>], t)

InitType ==
    /\ FieldOff
    /\ now = 0
    /\ form = Idle
    /\ theme = Idle
    /\ globe = Idle
    /\ boot = Idle
    /\ scr = Idle
    /\ \E ep \in BOOLEAN, tn \in BOOLEAN, text \in TypeTexts :
          /\ tn => text = << >>
          /\ typ = [ on |-> TRUE, elPresent |-> ep, textNull |-> tn,
                     text |-> text, called |-> FALSE, threw |-> FALSE,
                     el |-> << >>, i |-> 0, lastCharAt |-> -1,
                     cleanedAt |-> -1, done |-> FALSE,
                     timer |-> [ kind |-> "none", due |-> -1 ] ]

\* typeText is called (by startPageAnimations, with the section's
\* data-command, which is null when the attribute is missing).
TypeTextCall ==
    /\ typ.on
    /\ ~typ.called
    /\ typ' = typeText(typ, now)
    /\ UNCHANGED << fieldVars, now, form, theme, globe, boot, scr >>

\* The timer of type fires.
TypeTimeout ==
    /\ typ.on
    /\ typ.timer.kind = "type"
    /\ now >= typ.timer.due
    /\ typ' = type(typ, now)
    /\ UNCHANGED << fieldVars, now, form, theme, globe, boot, scr >>

\* The timer that removes the cursor fires:
\* element.innerText = element.innerText.replace('_', '')
CursorTimeout ==
    /\ typ.on
    /\ typ.timer.kind = "cursor"
    /\ now >= typ.timer.due
    /\ typ' = [typ EXCEPT !.el = ReplaceFirst(typ.el),
                          !.done = TRUE,
                          !.cleanedAt = now,
                          !.timer = [ kind |-> "none", due |-> -1 ]]
    /\ UNCHANGED << fieldVars, now, form, theme, globe, boot, scr >>

\* Time passes while the text is typed: by a step, or up to the timer.
TypeTick ==
    /\ typ.on
    /\ now < MaxTypeNow
    /\ \/ now' = now + TypeStep
       \/ /\ typ.timer.kind # "none"
          /\ typ.timer.due > now
          /\ now' = typ.timer.due
    /\ UNCHANGED << fieldVars, pageVars >>

NextType ==
    \/ TypeTextCall
    \/ TypeTimeout
    \/ CursorTimeout
    \/ TypeTick

SpecType == InitType /\ [][NextType]_vars

\* C21: while typeText types, the element shows the characters typed so far,
\* in order, and one cursor '_' after them; once the cursor's timer has fired,
\* no sooner than 500 ms after the last character, the element shows the text
\* exactly; for every text, those with '_' included.
C21_TypedInOrderThenCursorRemoved ==
    (typ.on /\ typ.called /\ typ.elPresent /\ ~typ.textNull) =>
        /\ ~typ.done => typ.el = SubSeq(typ.text, 1, typ.i) \o << "_" >>
        /\ typ.done =>
              /\ typ.i = Len(typ.text)
              /\ typ.el = typ.text
              /\ typ.cleanedAt >= typ.lastCharAt + CursorDelay

====
